---- MODULE Spec2Model ----
(***************************************************************************)
(* Model of `step ca init` (command/ca/init.go): initAction and            *)
(* promptDeploymentType.  One run of initAction is a straight-line         *)
(* program; pc is the position in it, calls is the ordered log of every    *)
(* call the run makes into its collaborators (preflight, file readers,     *)
(* prompts, the pki library).  The outcome of each such call (success or   *)
(* error, and the value it yields) is chosen nondeterministically.         *)
(*                                                                         *)
(* Flag values that the code lower-cases (--ra, --deployment-type) are      *)
(* sequences of one-character strings so that strings.ToLower is computed. *)
(***************************************************************************)
EXTENDS Integers, Sequences, FiniteSets, TLC

VARIABLES ctx, pc, err, calls,
          rootCrt, rootKey, password, provisionerPassword,
          deploymentType, name, org, iss, create, casOptions,
          dnsNames, opts, pass, idx

vars == <<ctx, pc, err, calls, rootCrt, rootKey, password, provisionerPassword,
          deploymentType, name, org, iss, create, casOptions,
          dnsNames, opts, pass, idx>>

\* groups of locals, for UNCHANGED
inputVars == <<rootCrt, rootKey, password, provisionerPassword>>
backendVars == <<deploymentType, name, org, iss, create, casOptions>>
pkiVars == <<dnsNames, opts, pass>>

----------------------------------------------------------------------------
(* Strings *)

UpperChars == <<"A","B","C","D","E","F","G","H","I","J","K","L","M",
                "N","O","P","Q","R","S","T","U","V","W","X","Y","Z">>
LowerChars == <<"a","b","c","d","e","f","g","h","i","j","k","l","m",
                "n","o","p","q","r","s","t","u","v","w","x","y","z">>

LowerChar(c) ==
    IF \E i \in 1..Len(UpperChars) : UpperChars[i] = c
    THEN LowerChars[CHOOSE i \in 1..Len(UpperChars) : UpperChars[i] = c]
    ELSE c

\* strings.ToLower
ToLower(s) == [i \in 1..Len(s) |-> LowerChar(s[i])]

\* apiv1.CloudCAS, apiv1.StepCAS, apiv1.SoftCAS
CloudCAS == <<"c","l","o","u","d","c","a","s">>
StepCAS == <<"s","t","e","p","c","a","s">>
SoftCAS == <<"s","o","f","t","c","a","s">>

\* values of --ra tried
RaValues == { <<>>,
              <<"S","t","e","p","C","A","S">>,
              <<"c","l","o","u","d","c","a","s">>,
              <<"v","a","u","l","t">> }

Standalone == <<"s","t","a","n","d","a","l","o","n","e">>
Linked == <<"l","i","n","k","e","d">>
Hosted == <<"h","o","s","t","e","d">>

\* the options named by the usage text of --deployment-type, lines 58-69:
\* standalone, linkedca, hosted
UsageDeploymentTypes == { Standalone,
                          <<"l","i","n","k","e","d","c","a">>,
                          Hosted }

\* values of --deployment-type tried
DeploymentTypeValues == { <<>>,
                          Standalone,
                          <<"L","i","n","k","e","d">>,
                          <<"H","o","s","t","e","d">>,
                          <<"l","i","n","k","e","d","c","a">> }

\* pki.StandaloneDeployment, pki.LinkedDeployment, pki.HostedDeployment
StandaloneDeployment == "StandaloneDeployment"
LinkedDeployment == "LinkedDeployment"
HostedDeployment == "HostedDeployment"

\* values of --issuer tried: unset, a CloudCAS resource name, something else
IssuerResource == "projects/smallstep-ca/locations/us-west1/caPools/smallstep/certificateAuthorities/intermediate-ca"
IssuerValues == {"", IssuerResource, "my-ca"}

\* the regular expression of line 277 on the values tried: the resource name
\* matches it, "" and "my-ca" do not
MatchesAuthorityPattern(s) == s = IssuerResource

\* answers of the operator to the PKI name / organization prompts
NameAnswers == {"Smallstep", "Acme"}

----------------------------------------------------------------------------
(* Errors.  All errors have one shape so that they compare. *)

E(kind, a, b, value) == [kind |-> kind, a |-> a, b |-> b, value |-> value]

Nil == E("nil", "", "", <<>>)
\* the error returned by a failing call to op
CallErr(op) == E("error", op, "", <<>>)
\* errs.NewError("crypto/rand is unavailable: ...")
CryptoRandErr == E("crypto/rand is unavailable", "", "", <<>>)
\* errs.RequiredWithFlag(ctx, flag, required)
RequiredWithFlag(flag, required) == E("RequiredWithFlag", flag, required, <<>>)
\* errs.InvalidFlagValue(ctx, flag, value, options)
InvalidFlagValue(flag, value, options) == E("InvalidFlagValue", flag, options, value)
\* errs.IncompatibleFlagWithFlag(ctx, flag, withFlag)
IncompatibleFlagWithFlag(flag, withFlag) == E("IncompatibleFlagWithFlag", flag, withFlag, <<>>)

----------------------------------------------------------------------------
(* Helpers of the translation *)

\* the run makes a call into a collaborator
Call(op, ok, args) == calls' = Append(calls, [op |-> op, ok |-> ok, args |-> args])

\* return e
Return(e) == pc' = "done" /\ err' = e

\* the zero value of apiv1.Options
ZeroOptions == [Type |-> <<>>, IsCreator |-> FALSE, IsCAGetter |-> FALSE,
                CertificateAuthority |-> ""]

Flags == [root : {"", "root_ca.crt"},
          key : {"", "root_ca_key"},
          ra : RaValues,
          pki : BOOLEAN, noDB : BOOLEAN, helm : BOOLEAN, ssh : BOOLEAN,
          deploymentType : DeploymentTypeValues,
          passwordFile : {"", "password.txt"},
          provisionerPasswordFile : {"", "provisioner-password.txt"},
          issuer : IssuerValues]

\* ra := strings.ToLower(ctx.String("ra"))
ra == ToLower(ctx.ra)

Init ==
    /\ ctx \in Flags
    /\ pc = "assertCryptoRand"
    /\ err = Nil
    /\ calls = <<>>
    /\ rootCrt = "nil" /\ rootKey = "nil"
    /\ password = "" /\ provisionerPassword = ""
    /\ deploymentType = "unset"
    /\ name = "" /\ org = "" /\ iss = "" /\ create = FALSE
    /\ casOptions = ZeroOptions
    /\ dnsNames = <<>> /\ opts = <<>> /\ pass = ""
    /\ idx = 0

----------------------------------------------------------------------------
(* initAction, lines 146-204: preflight, flag validation, password files *)

\* AssertCryptoRand with the error of the preflight not returned
AssertCryptoRand_ErrIgnored ==
    /\ pc = "assertCryptoRand"
    /\ \E ok \in BOOLEAN :
        /\ Call("assertCryptoRand", ok, <<>>)
        /\ pc' = "validate" /\ err' = err
    /\ UNCHANGED <<ctx, inputVars, backendVars, pkiVars, idx>>

\* if err = assertCryptoRand(); err != nil { return err }
AssertCryptoRand ==
    /\ pc = "assertCryptoRand"
    /\ \E ok \in BOOLEAN :
        /\ Call("assertCryptoRand", ok, <<>>)
        /\ IF ok THEN pc' = "validate" /\ err' = err
                 ELSE Return(CryptoRandErr)
    /\ UNCHANGED <<ctx, inputVars, backendVars, pkiVars, idx>>

\* ValidateFlags with the --ra case tried before the root/key cases
ValidateFlags_RaFirst ==
    /\ pc = "validate"
    /\ IF ra # <<>> /\ ra # CloudCAS /\ ra # StepCAS
       THEN Return(InvalidFlagValue("ra", ctx.ra, "StepCAS or CloudCAS"))
       ELSE IF ctx.root # "" /\ ctx.key = "" THEN Return(RequiredWithFlag("root", "key"))
       ELSE IF ctx.root = "" /\ ctx.key # "" THEN Return(RequiredWithFlag("key", "root"))
       ELSE IF ctx.root # "" /\ ctx.key # "" THEN pc' = "readCertificate" /\ err' = err
       ELSE IF ctx.pki /\ ctx.noDB THEN Return(IncompatibleFlagWithFlag("pki", "no-db"))
       ELSE IF ctx.pki /\ ctx.helm THEN Return(IncompatibleFlagWithFlag("pki", "helm"))
       ELSE pc' = "passwordFile" /\ err' = err
    /\ UNCHANGED <<ctx, calls, inputVars, backendVars, pkiVars, idx>>

\* the switch of lines 162-180; the first case that matches wins, and the
\* case for root and key both set only starts the two reads
ValidateFlags ==
    /\ pc = "validate"
    /\ IF ctx.root # "" /\ ctx.key = "" THEN Return(RequiredWithFlag("root", "key"))
       ELSE IF ctx.root = "" /\ ctx.key # "" THEN Return(RequiredWithFlag("key", "root"))
       ELSE IF ctx.root # "" /\ ctx.key # "" THEN pc' = "readCertificate" /\ err' = err
       ELSE IF ra # <<>> /\ ra # CloudCAS /\ ra # StepCAS
            THEN Return(InvalidFlagValue("ra", ctx.ra, "StepCAS or CloudCAS"))
       ELSE IF ctx.pki /\ ctx.noDB THEN Return(IncompatibleFlagWithFlag("pki", "no-db"))
       ELSE IF ctx.pki /\ ctx.helm THEN Return(IncompatibleFlagWithFlag("pki", "helm"))
       ELSE pc' = "passwordFile" /\ err' = err
    /\ UNCHANGED <<ctx, calls, inputVars, backendVars, pkiVars, idx>>

\* rootCrt, err = pemutil.ReadCertificate(root)
ReadCertificate ==
    /\ pc = "readCertificate"
    /\ \E ok \in BOOLEAN :
        /\ Call("pemutil.ReadCertificate", ok, <<ctx.root>>)
        /\ IF ok THEN rootCrt' = "rootCrt" /\ pc' = "readKey" /\ err' = err
                 ELSE rootCrt' = rootCrt /\ Return(CallErr("pemutil.ReadCertificate"))
    /\ UNCHANGED <<ctx, rootKey, password, provisionerPassword, backendVars, pkiVars, idx>>

\* rootKey, err = pemutil.Read(key)
ReadKey ==
    /\ pc = "readKey"
    /\ \E ok \in BOOLEAN :
        /\ Call("pemutil.Read", ok, <<ctx.key>>)
        /\ IF ok THEN rootKey' = "rootKey" /\ pc' = "passwordFile" /\ err' = err
                 ELSE rootKey' = rootKey /\ Return(CallErr("pemutil.Read"))
    /\ UNCHANGED <<ctx, rootCrt, password, provisionerPassword, backendVars, pkiVars, idx>>

\* lines 182-188: password from --password-file
ReadPasswordFile ==
    /\ pc = "passwordFile"
    /\ IF ctx.passwordFile # ""
       THEN \E ok \in BOOLEAN :
              /\ Call("utils.ReadStringPasswordFromFile", ok, <<ctx.passwordFile>>)
              /\ IF ok THEN password' = "file-password" /\ pc' = "provisionerPasswordFile" /\ err' = err
                       ELSE password' = password /\ Return(CallErr("utils.ReadStringPasswordFromFile"))
       ELSE pc' = "provisionerPasswordFile" /\ UNCHANGED <<err, calls, password>>
    /\ UNCHANGED <<ctx, rootCrt, rootKey, provisionerPassword, backendVars, pkiVars, idx>>

\* lines 190-198: provisioner password from --provisioner-password-file;
\* the file may be empty
ReadProvisionerPasswordFile ==
    /\ pc = "provisionerPasswordFile"
    /\ IF ctx.provisionerPasswordFile # ""
       THEN \E ok \in BOOLEAN, contents \in {"", "file-provisioner-password"} :
              /\ Call("utils.ReadPasswordFromFile", ok, <<ctx.provisionerPasswordFile>>)
              /\ IF ok THEN provisionerPassword' = contents /\ pc' = "promptDeploymentType" /\ err' = err
                       ELSE provisionerPassword' = provisionerPassword
                            /\ contents = ""
                            /\ Return(CallErr("utils.ReadPasswordFromFile"))
       ELSE pc' = "promptDeploymentType" /\ UNCHANGED <<err, calls, provisionerPassword>>
    /\ UNCHANGED <<ctx, rootCrt, rootKey, password, backendVars, pkiVars, idx>>

----------------------------------------------------------------------------
(* promptDeploymentType, lines 499-545 *)

\* the entries offered by the interactive selection
DeploymentTypes(isRA) ==
    IF isRA THEN <<StandaloneDeployment, LinkedDeployment>>
            ELSE <<StandaloneDeployment, LinkedDeployment, HostedDeployment>>

\* DeploymentTypeOfFlag with the non-RA cases used in both modes
DeploymentTypeOfFlag_OneMode(v, isRA) ==
    IF v = <<>> THEN "select"
    ELSE IF v = Standalone THEN StandaloneDeployment
    ELSE IF v = Linked THEN LinkedDeployment
    ELSE IF v = Hosted THEN HostedDeployment
    ELSE "invalid"

\* the switch on the lower-cased flag value: "select" when the selection is
\* to be shown, "invalid" for the default case, else the deployment type
DeploymentTypeOfFlag(v, isRA) ==
    IF v = <<>> THEN "select"
    ELSE IF v = Standalone THEN StandaloneDeployment
    ELSE IF v = Linked THEN LinkedDeployment
    ELSE IF ~isRA /\ v = Hosted THEN HostedDeployment
    ELSE "invalid"

\* the options named by the invalid-value error
DeploymentTypeOptions(isRA) ==
    IF isRA THEN "standalone or linked" ELSE "standalone, linked or hosted"

\* the mode of the call: lines 216 and 295 pass true, line 329 passes false
IsRA == ra = CloudCAS \/ ra = StepCAS

\* deploymentType, err = promptDeploymentType(ctx, isRA)
PromptDeploymentType ==
    /\ pc = "promptDeploymentType"
    /\ LET v == ToLower(ctx.deploymentType)
           r == DeploymentTypeOfFlag(v, IsRA)
           types == DeploymentTypes(IsRA)
       IN  IF r = "select"
           THEN \E ok \in BOOLEAN, i \in 1..Len(types) :
                  /\ Call("ui.Select", ok, types)
                  /\ IF ok THEN deploymentType' = types[i] /\ pc' = "backend" /\ err' = err
                           ELSE i = 1 /\ deploymentType' = deploymentType
                                /\ Return(CallErr("ui.Select"))
           ELSE IF r = "invalid"
           THEN /\ Return(InvalidFlagValue("deployment-type", v, DeploymentTypeOptions(IsRA)))
                /\ UNCHANGED <<calls, deploymentType>>
           ELSE /\ deploymentType' = r /\ pc' = "backend"
                /\ UNCHANGED <<calls, err>>
    /\ UNCHANGED <<ctx, inputVars, name, org, iss, create, casOptions, pkiVars, idx>>

----------------------------------------------------------------------------
(* initAction, lines 205-353: the backend *)

\* lines 221-226: without --issuer, ask create new (y) or use existing (n)
CloudCASCreateOrExisting ==
    /\ pc = "backend" /\ ra = CloudCAS
    /\ IF ctx.issuer = ""
       THEN \E ok \in BOOLEAN, answer \in BOOLEAN :
              /\ Call("ui.PromptYesNo", ok, <<answer>>)
              /\ IF ok THEN /\ create' = answer /\ iss' = ""
                            /\ pc' = (IF answer THEN "cloudCreate" ELSE "cloudExisting")
                            /\ idx' = (IF answer THEN 1 ELSE idx)
                            /\ err' = err
                       ELSE /\ answer = FALSE
                            /\ Return(CallErr("ui.PromptYesNo"))
                            /\ UNCHANGED <<create, iss, idx>>
       ELSE /\ iss' = ctx.issuer /\ pc' = "cloudOptions"
            /\ UNCHANGED <<calls, err, create, idx>>
    /\ UNCHANGED <<ctx, inputVars, deploymentType, name, org, casOptions, pkiVars>>

\* the prompts of the create path, lines 228-273, in their order
CloudCreatePrompts == <<"name", "org", "resource", "project", "location",
                        "caPool", "caPoolTier", "gcsBucket">>

\* one prompt of the create path; an error of any prompt is returned
CloudCASCreatePrompt ==
    /\ pc = "cloudCreate"
    /\ LET field == CloudCreatePrompts[idx]
           op == IF field = "caPoolTier" THEN "ui.Select" ELSE "ui.Prompt"
       IN \E ok \in BOOLEAN, answer \in NameAnswers :
            /\ Call(op, ok, <<field>>)
            /\ IF ok
               THEN /\ name' = (IF field = "name" THEN answer ELSE name)
                    /\ org' = (IF field = "org" THEN answer ELSE org)
                    /\ field \notin {"name", "org"} => answer = "Smallstep"
                    /\ IF idx = Len(CloudCreatePrompts)
                       THEN pc' = "cloudOptions" /\ idx' = 0
                       ELSE pc' = pc /\ idx' = idx + 1
                    /\ err' = err
               ELSE /\ answer = "Smallstep"
                    /\ Return(CallErr(op))
                    /\ UNCHANGED <<name, org, idx>>
    /\ UNCHANGED <<ctx, inputVars, deploymentType, iss, create, casOptions, pkiVars>>

\* lines 275-280: the authority to use, validated by the prompt
CloudCASExistingPrompt ==
    /\ pc = "cloudExisting"
    /\ \E ok \in BOOLEAN :
        /\ Call("ui.Prompt", ok, <<"certificateAuthority">>)
        /\ IF ok THEN iss' = IssuerResource /\ pc' = "cloudOptions" /\ err' = err
                 ELSE iss' = iss /\ Return(CallErr("ui.Prompt"))
    /\ UNCHANGED <<ctx, inputVars, deploymentType, name, org, create, casOptions, pkiVars, idx>>

\* CloudCASOptions with IsCreator set from the absence of --issuer alone
CloudCASOptions_CreatorWithoutIssuer ==
    /\ pc = "cloudOptions"
    /\ casOptions' = [Type |-> CloudCAS, IsCreator |-> (ctx.issuer = ""),
                      IsCAGetter |-> FALSE, CertificateAuthority |-> iss]
    /\ pc' = "options"
    /\ UNCHANGED <<ctx, err, calls, inputVars, deploymentType, name, org, iss, create, pkiVars, idx>>

\* lines 283-293
CloudCASOptions ==
    /\ pc = "cloudOptions"
    /\ casOptions' = [Type |-> CloudCAS, IsCreator |-> create, IsCAGetter |-> FALSE,
                      CertificateAuthority |-> iss]
    /\ pc' = "options"
    /\ UNCHANGED <<ctx, err, calls, inputVars, deploymentType, name, org, iss, create, pkiVars, idx>>

\* the prompts of lines 299-316, in their order
StepCASPrompts == <<"ca", "fingerprint", "provisioner">>

\* one prompt of the StepCAS branch; after the last one, lines 317-327
StepCASPrompt ==
    /\ pc = "stepcas"
    /\ \E ok \in BOOLEAN :
        /\ Call("ui.Prompt", ok, <<StepCASPrompts[idx]>>)
        /\ IF ok
           THEN /\ IF idx = Len(StepCASPrompts)
                   THEN /\ casOptions' = [Type |-> StepCAS, IsCreator |-> FALSE,
                                          IsCAGetter |-> TRUE,
                                          CertificateAuthority |-> "https://ca.smallstep.com:9000"]
                        /\ pc' = "options" /\ idx' = 0
                   ELSE /\ casOptions' = casOptions
                        /\ pc' = pc /\ idx' = idx + 1
                /\ err' = err
           ELSE /\ Return(CallErr("ui.Prompt"))
                /\ UNCHANGED <<casOptions, idx>>
    /\ UNCHANGED <<ctx, inputVars, deploymentType, name, org, iss, create, pkiVars>>

\* line 294: case apiv1.StepCAS, after promptDeploymentType
StepCASBackend ==
    /\ pc = "backend" /\ ra = StepCAS
    /\ pc' = "stepcas" /\ idx' = 1
    /\ UNCHANGED <<ctx, err, calls, inputVars, backendVars, pkiVars>>

\* HostedDeploymentExit without the return
HostedDeploymentExit_Continues ==
    /\ pc = "backend" /\ ra # CloudCAS /\ ra # StepCAS
    /\ deploymentType = HostedDeployment
    /\ pc' = "options"
    /\ UNCHANGED <<ctx, err, calls, inputVars, backendVars, pkiVars, idx>>

\* lines 333-341: the local backend does not initialize a hosted deployment
HostedDeploymentExit ==
    /\ pc = "backend" /\ ra # CloudCAS /\ ra # StepCAS
    /\ deploymentType = HostedDeployment
    /\ Return(Nil)
    /\ UNCHANGED <<ctx, calls, inputVars, backendVars, pkiVars, idx>>

\* lines 343-352: the default case of the switch on ra
LocalBackend ==
    /\ pc = "backend" /\ ra # CloudCAS /\ ra # StepCAS
    /\ deploymentType # HostedDeployment
    /\ \E ok \in BOOLEAN, answer \in NameAnswers :
        /\ Call("ui.Prompt", ok, <<"name">>)
        /\ IF ok THEN /\ name' = answer /\ org' = answer
                      /\ casOptions' = [Type |-> SoftCAS, IsCreator |-> TRUE,
                                        IsCAGetter |-> FALSE, CertificateAuthority |-> ""]
                      /\ pc' = "options" /\ err' = err
                 ELSE /\ answer = "Smallstep"
                      /\ Return(CallErr("ui.Prompt"))
                      /\ UNCHANGED <<name, org, casOptions>>
    /\ UNCHANGED <<ctx, inputVars, deploymentType, iss, create, pkiVars, idx>>

----------------------------------------------------------------------------
(* initAction, lines 355-417: the options of the PKI *)

\* strings.Replace(names, " ", ",", -1)
ReplaceSpaces(s) == [i \in 1..Len(s) |-> IF s[i] = " " THEN "," ELSE s[i]]

\* strings.Split(s, ","): every segment, the empty ones included
RECURSIVE Split(_)
Split(s) ==
    IF \E i \in 1..Len(s) : s[i] = ","
    THEN LET i == CHOOSE k \in 1..Len(s) : s[k] = "," /\ \A j \in 1..(k-1) : s[j] # ","
         IN  <<SubSeq(s, 1, i-1)>> \o Split(SubSeq(s, i+1, Len(s)))
    ELSE <<s>>

WhiteSpace == {" ", "\t", "\n", "\r"}

\* strings.TrimSpace
RECURSIVE TrimSpace(_)
TrimSpace(s) ==
    IF s = <<>> THEN s
    ELSE IF s[1] \in WhiteSpace THEN TrimSpace(Tail(s))
    ELSE IF s[Len(s)] \in WhiteSpace THEN TrimSpace(SubSeq(s, 1, Len(s)-1))
    ELSE s

\* TrimParts without the test that skips the empty parts
RECURSIVE TrimParts_KeepEmpty(_)
TrimParts_KeepEmpty(parts) ==
    IF parts = <<>> THEN <<>>
    ELSE <<TrimSpace(Head(parts))>> \o TrimParts_KeepEmpty(Tail(parts))

\* the loop of lines 369-374 over parts
RECURSIVE TrimParts(_)
TrimParts(parts) ==
    IF parts = <<>> THEN <<>>
    ELSE IF Len(Head(parts)) = 0 THEN TrimParts(Tail(parts))
    ELSE <<TrimSpace(Head(parts))>> \o TrimParts(Tail(parts))

\* lines 366-374: names as answered to dnsNames
DNSNames(names) == TrimParts(Split(ReplaceSpaces(names)))

\* answers of the operator to the DNS names prompt
DnsAnswers == { <<"a">>, <<"a", ",", " ", "b">> }

\* lines 356-357
PKIOnlyOptions ==
    /\ pc = "options" /\ ctx.pki
    /\ opts' = <<"WithPKIOnly">>
    /\ pc' = "pkiNew"
    /\ UNCHANGED <<ctx, err, calls, inputVars, backendVars, dnsNames, pass, idx>>

\* the characters of the names strings tried: "a" and "b" stand for the
\* characters of a DNS name or IP address
NameChars == {"a", "b"}
NamesAlphabet == NameChars \cup {",", " ", "\t"}

MaxNamesLen == 4

\* the names strings tried, up to MaxNamesLen characters
BoundedNames == UNION {[1..n -> NamesAlphabet] : n \in 0..MaxNamesLen}

\* the validator ui.DNS() of the prompt: the value is a list of DNS names or
\* IP addresses separated by commas and spaces, with at least one name
DNSAccepts(s) ==
    /\ \E i \in 1..Len(s) : s[i] \in NameChars
    /\ \A i \in 1..Len(s) : s[i] \in NameChars \cup {",", " "}

\* the names strings the prompt can return
AcceptedNames == {s \in BoundedNames : DNSAccepts(s)}

\* lines 359-374, the prompt answered from answers
PromptDNSNamesOver(answers) ==
    /\ pc = "options" /\ ~ctx.pki
    /\ \E ok \in BOOLEAN, names \in answers :
        /\ IF ok THEN /\ Call("ui.Prompt", ok, <<"dns", names>>)
                      /\ dnsNames' = DNSNames(names) /\ pc' = "address" /\ err' = err
                 ELSE /\ names = (CHOOSE n \in answers : TRUE)
                      /\ Call("ui.Prompt", ok, <<"dns">>)
                      /\ dnsNames' = dnsNames /\ Return(CallErr("ui.Prompt"))
    /\ UNCHANGED <<ctx, inputVars, backendVars, opts, pass, idx>>

\* lines 359-374
PromptDNSNames == PromptDNSNamesOver(DnsAnswers)

\* lines 359-374, every accepted names string up to MaxNamesLen tried
PromptDNSNamesBounded == PromptDNSNamesOver(AcceptedNames)

\* lines 376-382
PromptAddress ==
    /\ pc = "address"
    /\ \E ok \in BOOLEAN :
        /\ Call("ui.Prompt", ok, <<"address">>)
        /\ IF ok THEN pc' = "provisioner" /\ err' = err
                 ELSE Return(CallErr("ui.Prompt"))
    /\ UNCHANGED <<ctx, inputVars, backendVars, pkiVars, idx>>

\* BuildOptions with WithSSH added whenever --ssh is set, linked included
BuildOptions_SSHAlways ==
    <<"WithAddress", "WithCaUrl", "WithDNSNames", "WithDeploymentType">>
    \o (IF deploymentType = StandaloneDeployment THEN <<"WithProvisioner">> ELSE <<>>)
    \o (IF deploymentType = LinkedDeployment THEN <<"WithAdmin">> ELSE <<>>)
    \o (IF ctx.ssh THEN <<"WithSSH">> ELSE <<>>)
    \o (IF ctx.noDB THEN <<"WithNoDB">> ELSE <<>>)
    \o (IF ctx.helm THEN <<"WithHelm">> ELSE <<>>)

\* lines 397-416: the options of a run that is not pki-only
BuildOptions ==
    <<"WithAddress", "WithCaUrl", "WithDNSNames", "WithDeploymentType">>
    \o (IF deploymentType = StandaloneDeployment THEN <<"WithProvisioner">> ELSE <<>>)
    \o (IF deploymentType = LinkedDeployment THEN <<"WithAdmin">>
        ELSE IF ctx.ssh THEN <<"WithSSH">> ELSE <<>>)
    \o (IF ctx.noDB THEN <<"WithNoDB">> ELSE <<>>)
    \o (IF ctx.helm THEN <<"WithHelm">> ELSE <<>>)

\* lines 384-417: the first provisioner is asked for standalone only
PromptProvisioner ==
    /\ pc = "provisioner"
    /\ IF deploymentType = StandaloneDeployment
       THEN \E ok \in BOOLEAN :
              /\ Call("ui.Prompt", ok, <<"provisioner">>)
              /\ IF ok THEN opts' = BuildOptions /\ pc' = "pkiNew" /\ err' = err
                       ELSE opts' = opts /\ Return(CallErr("ui.Prompt"))
       ELSE /\ opts' = BuildOptions /\ pc' = "pkiNew"
            /\ UNCHANGED <<err, calls>>
    /\ UNCHANGED <<ctx, inputVars, backendVars, dnsNames, pass, idx>>

----------------------------------------------------------------------------
(* initAction, lines 419-497: provisioning *)

\* p, err := pki.New(casOptions, opts...)
PKINew ==
    /\ pc = "pkiNew"
    /\ \E ok \in BOOLEAN :
        /\ Call("pki.New", ok, <<casOptions, opts, dnsNames>>)
        /\ IF ok THEN pc' = "promptPassword" /\ err' = err
                 ELSE Return(CallErr("pki.New"))
    /\ UNCHANGED <<ctx, inputVars, backendVars, pkiVars, idx>>

\* the passwords the password prompt may yield
PassAnswers == {"prompt-password", "file-password"}

\* pass, err := ui.PromptPasswordGenerate(..., ui.WithValue(password))
PromptPasswordGenerate ==
    /\ pc = "promptPassword"
    /\ \E ok \in BOOLEAN, answer \in PassAnswers :
        /\ Call("ui.PromptPasswordGenerate", ok, <<password>>)
        /\ IF ok THEN pass' = answer /\ pc' = "generateKeyPairs" /\ err' = err
                 ELSE /\ answer = "prompt-password"
                      /\ pass' = pass /\ Return(CallErr("ui.PromptPasswordGenerate"))
    /\ UNCHANGED <<ctx, inputVars, backendVars, dnsNames, opts, idx>>

\* GenerateKeyPairs with the negation of pkiOnly dropped
GenerateKeyPairs_PKIOnly ==
    /\ pc = "generateKeyPairs"
    /\ IF ctx.pki /\ deploymentType = StandaloneDeployment
       THEN \E ok \in BOOLEAN :
              /\ Call("GenerateKeyPairs", ok,
                      <<IF Len(provisionerPassword) > 0 THEN provisionerPassword ELSE pass>>)
              /\ IF ok THEN pc' = "root" /\ err' = err
                       ELSE Return(CallErr("GenerateKeyPairs"))
       ELSE pc' = "root" /\ UNCHANGED <<err, calls>>
    /\ UNCHANGED <<ctx, inputVars, backendVars, pkiVars, idx>>

\* lines 436-447
GenerateKeyPairs ==
    /\ pc = "generateKeyPairs"
    /\ IF ~ctx.pki /\ deploymentType = StandaloneDeployment
       THEN \E ok \in BOOLEAN :
              /\ Call("GenerateKeyPairs", ok,
                      <<IF Len(provisionerPassword) > 0 THEN provisionerPassword ELSE pass>>)
              /\ IF ok THEN pc' = "root" /\ err' = err
                       ELSE Return(CallErr("GenerateKeyPairs"))
       ELSE pc' = "root" /\ UNCHANGED <<err, calls>>
    /\ UNCHANGED <<ctx, inputVars, backendVars, pkiVars, idx>>

\* lines 453-459
GenerateRootCertificate ==
    /\ pc = "root" /\ casOptions.IsCreator
    /\ rootCrt = "nil" /\ rootKey = "nil"
    /\ \E ok \in BOOLEAN :
        /\ Call("GenerateRootCertificate", ok, <<name, org, pass>>)
        /\ IF ok THEN pc' = "intermediate" /\ err' = err
                 ELSE Return(CallErr("GenerateRootCertificate"))
    /\ UNCHANGED <<ctx, inputVars, backendVars, pkiVars, idx>>

\* lines 460-468: the key is not copied
WriteRootCertificate ==
    /\ pc = "root" /\ casOptions.IsCreator
    /\ ~(rootCrt = "nil" /\ rootKey = "nil")
    /\ \E ok \in BOOLEAN :
        /\ Call("WriteRootCertificate", ok, <<rootCrt, "nil", "nil">>)
        /\ IF ok THEN pc' = "intermediate" /\ err' = err
                 ELSE Return(CallErr("WriteRootCertificate"))
    /\ UNCHANGED <<ctx, inputVars, backendVars, pkiVars, idx>>

\* GenerateIntermediateCertificate with its error not checked
GenerateIntermediateCertificate_ErrIgnored ==
    /\ pc = "intermediate"
    /\ \E ok \in BOOLEAN :
        /\ Call("GenerateIntermediateCertificate", ok, <<name, org, pass>>)
        /\ pc' = "ssh" /\ err' = err
    /\ UNCHANGED <<ctx, inputVars, backendVars, pkiVars, idx>>

\* lines 470-477
GenerateIntermediateCertificate ==
    /\ pc = "intermediate"
    /\ \E ok \in BOOLEAN :
        /\ Call("GenerateIntermediateCertificate", ok, <<name, org, pass>>)
        /\ IF ok THEN pc' = "ssh" /\ err' = err
                 ELSE Return(CallErr("GenerateIntermediateCertificate"))
    /\ UNCHANGED <<ctx, inputVars, backendVars, pkiVars, idx>>

\* GetCertificateAuthority attempted by creators too
GetCertificateAuthority_Always ==
    /\ pc = "root"
    /\ \E ok \in BOOLEAN :
        /\ Call("GetCertificateAuthority", ok, <<>>)
        /\ IF ok THEN pc' = "ssh" /\ err' = err
                 ELSE Return(CallErr("GetCertificateAuthority"))
    /\ UNCHANGED <<ctx, inputVars, backendVars, pkiVars, idx>>

\* lines 478-483
GetCertificateAuthority ==
    /\ pc = "root" /\ ~casOptions.IsCreator
    /\ \E ok \in BOOLEAN :
        /\ Call("GetCertificateAuthority", ok, <<>>)
        /\ IF ok THEN pc' = "ssh" /\ err' = err
                 ELSE Return(CallErr("GetCertificateAuthority"))
    /\ UNCHANGED <<ctx, inputVars, backendVars, pkiVars, idx>>

\* lines 485-491
GenerateSSHSigningKeys ==
    /\ pc = "ssh"
    /\ IF ctx.ssh
       THEN \E ok \in BOOLEAN :
              /\ Call("GenerateSSHSigningKeys", ok, <<pass>>)
              /\ IF ok THEN pc' = "final" /\ err' = err
                       ELSE Return(CallErr("GenerateSSHSigningKeys"))
       ELSE pc' = "final" /\ UNCHANGED <<err, calls>>
    /\ UNCHANGED <<ctx, inputVars, backendVars, pkiVars, idx>>

\* lines 493-495: return p.WriteHelmTemplate(os.Stdout)
WriteHelmTemplate ==
    /\ pc = "final" /\ ctx.helm
    /\ \E ok \in BOOLEAN :
        /\ Call("WriteHelmTemplate", ok, <<>>)
        /\ Return(IF ok THEN Nil ELSE CallErr("WriteHelmTemplate"))
    /\ UNCHANGED <<ctx, inputVars, backendVars, pkiVars, idx>>

\* Save reached also after the helm template was asked for
Save_AlsoWithHelm ==
    /\ pc = "final"
    /\ \E ok \in BOOLEAN :
        /\ Call("Save", ok, <<>>)
        /\ Return(IF ok THEN Nil ELSE CallErr("Save"))
    /\ UNCHANGED <<ctx, inputVars, backendVars, pkiVars, idx>>

\* line 496: return p.Save()
Save ==
    /\ pc = "final" /\ ~ctx.helm
    /\ \E ok \in BOOLEAN :
        /\ Call("Save", ok, <<>>)
        /\ Return(IF ok THEN Nil ELSE CallErr("Save"))
    /\ UNCHANGED <<ctx, inputVars, backendVars, pkiVars, idx>>

----------------------------------------------------------------------------

Next ==
    \/ AssertCryptoRand
    \/ ValidateFlags
    \/ ReadCertificate
    \/ ReadKey
    \/ ReadPasswordFile
    \/ ReadProvisionerPasswordFile
    \/ PromptDeploymentType
    \/ CloudCASCreateOrExisting
    \/ CloudCASCreatePrompt
    \/ CloudCASExistingPrompt
    \/ CloudCASOptions
    \/ StepCASBackend
    \/ StepCASPrompt
    \/ HostedDeploymentExit
    \/ LocalBackend
    \/ PKIOnlyOptions
    \/ PromptDNSNames
    \/ PromptAddress
    \/ PromptProvisioner
    \/ PKINew
    \/ PromptPasswordGenerate
    \/ GenerateKeyPairs
    \/ GenerateRootCertificate
    \/ WriteRootCertificate
    \/ GenerateIntermediateCertificate
    \/ GetCertificateAuthority
    \/ GenerateSSHSigningKeys
    \/ WriteHelmTemplate
    \/ Save

Spec == Init /\ [][Next]_vars

\* The normalisation of the DNS names on every accepted answer: a run of the
\* local backend with no flag but --deployment-type=standalone, up to pki.New.
InitDNS ==
    /\ Init
    /\ ctx = [root |-> "", key |-> "", ra |-> <<>>,
              pki |-> FALSE, noDB |-> FALSE, helm |-> FALSE, ssh |-> FALSE,
              deploymentType |-> Standalone,
              passwordFile |-> "", provisionerPasswordFile |-> "", issuer |-> ""]

NextDNS ==
    \/ AssertCryptoRand
    \/ ValidateFlags
    \/ ReadPasswordFile
    \/ ReadProvisionerPasswordFile
    \/ PromptDeploymentType
    \/ LocalBackend
    \/ PromptDNSNamesBounded
    \/ PromptAddress
    \/ PromptProvisioner
    \/ PKINew

SpecDNS == InitDNS /\ [][NextDNS]_vars

----------------------------------------------------------------------------
(* Vocabulary of the properties *)

CallIndices == 1..Len(calls)
Invoked(op) == \E i \in CallIndices : calls[i].op = op
Count(op) == Cardinality({i \in CallIndices : calls[i].op = op})
Succeeded(op) == \E i \in CallIndices : calls[i].op = op /\ calls[i].ok
Failed(op) == \E i \in CallIndices : calls[i].op = op /\ ~calls[i].ok

\* the names of the calls made so far that are in S, in their order
OpsIn(S) ==
    LET In(c) == c.op \in S
        f == SelectSeq(calls, In)
    IN  [i \in 1..Len(f) |-> f[i].op]

PromptOps == {"ui.Prompt", "ui.Select", "ui.PromptYesNo", "ui.PromptPasswordGenerate"}
ReadOps == {"pemutil.ReadCertificate", "pemutil.Read",
            "utils.ReadStringPasswordFromFile", "utils.ReadPasswordFromFile"}
GenerationOps == {"GenerateKeyPairs", "GenerateRootCertificate", "WriteRootCertificate",
                  "GenerateIntermediateCertificate", "GetCertificateAuthority",
                  "GenerateSSHSigningKeys"}
PersistenceOps == {"WriteHelmTemplate", "Save"}
PKIOps == {"pki.New"} \cup GenerationOps \cup PersistenceOps

PreflightOK == Len(calls) > 0 /\ calls[1].op = "assertCryptoRand" /\ calls[1].ok
AllCallsOK == \A i \in CallIndices : calls[i].ok

----------------------------------------------------------------------------
(* C1 *)

FullSequence == <<"GenerateKeyPairs", "GenerateRootCertificate",
                  "GenerateIntermediateCertificate", "Save">>

\* a finished run of the local backend, standalone, no --root/--key, no
\* --pki, in which every step succeeded
C1_Run ==
    /\ pc = "done" /\ err = Nil
    /\ ctx.ra = <<>> /\ deploymentType = StandaloneDeployment
    /\ ctx.root = "" /\ ctx.key = "" /\ ~ctx.pki

C1_Steps == {"GenerateKeyPairs", "GenerateRootCertificate", "WriteRootCertificate",
             "GenerateIntermediateCertificate", "GetCertificateAuthority", "Save"}

\* C1 as written: every such run invokes GenerateKeyPairs,
\* GenerateRootCertificate, GenerateIntermediateCertificate and Save, each
\* exactly once and in that order.
C1_Original == C1_Run => OpsIn(C1_Steps) = FullSequence

\* C1 amended: every such run without --helm invokes GenerateKeyPairs,
\* GenerateRootCertificate, GenerateIntermediateCertificate and Save, each
\* exactly once and in that order (with --helm the run ends with
\* WriteHelmTemplate and Save is not invoked).
C1_FullSequence == (C1_Run /\ ~ctx.helm) => OpsIn(C1_Steps) = FullSequence

C1_Witness == C1_Run /\ ~ctx.helm /\ Invoked("Save")

----------------------------------------------------------------------------
(* C2 *)

\* the position of a step in the fixed order of the provisioning
StepRank(op) ==
    CASE op = "pki.New" -> 1
      [] op = "ui.PromptPasswordGenerate" -> 2
      [] op = "GenerateKeyPairs" -> 3
      [] op \in {"GenerateRootCertificate", "WriteRootCertificate"} -> 4
      [] op \in {"GenerateIntermediateCertificate", "GetCertificateAuthority"} -> 5
      [] op = "GenerateSSHSigningKeys" -> 6
      [] op \in {"WriteHelmTemplate", "Save"} -> 7

ProvisioningSteps == PKIOps \cup {"ui.PromptPasswordGenerate"}

\* C2: the provisioning steps are invoked in the fixed order; once a step
\* has returned an error no later call is made and initAction has returned
\* exactly that error; after a failed GenerateIntermediateCertificate
\* neither Save nor WriteHelmTemplate is invoked.
C2_AbortOnFirstError ==
    /\ \A i \in CallIndices : ~calls[i].ok =>
          /\ i = Len(calls)
          /\ pc = "done"
          /\ calls[i].op \in ProvisioningSteps => err = CallErr(calls[i].op)
    /\ LET steps == OpsIn(ProvisioningSteps)
       IN  \A i, j \in 1..Len(steps) : i < j => StepRank(steps[i]) < StepRank(steps[j])
    /\ Failed("GenerateIntermediateCertificate") =>
          ~Invoked("Save") /\ ~Invoked("WriteHelmTemplate")
    /\ (pc = "done" /\ err # Nil /\ Invoked("pki.New")) => ~calls[Len(calls)].ok

C2_Witness ==
    /\ pc = "done"
    /\ Failed("GenerateIntermediateCertificate")
    /\ err = CallErr("GenerateIntermediateCertificate")

----------------------------------------------------------------------------
(* C3 *)

\* C3: with --ra empty and the deployment type resolved to hosted, no call
\* into the pki library is ever made and initAction returns nil.
C3_HostedLocal ==
    (ctx.ra = <<>> /\ deploymentType = HostedDeployment) =>
        /\ \A i \in CallIndices : calls[i].op \notin PKIOps
        /\ pc \in {"backend", "done"}
        /\ pc = "done" => err = Nil

\* hosted chosen in the interactive selection
C3_Witness ==
    /\ pc = "done" /\ err = Nil
    /\ ctx.ra = <<>> /\ ctx.deploymentType = <<>>
    /\ deploymentType = HostedDeployment

----------------------------------------------------------------------------
(* C4 *)

RootWithoutKey == ctx.root # "" /\ ctx.key = ""
KeyWithoutRoot == ctx.root = "" /\ ctx.key # ""

\* C4: with --root but not --key, or --key but not --root, the validation
\* returns the required-with-flag error whatever the other flags are; the
\* run makes no call but the preflight: no file read, no prompt, no pki.New,
\* no generation and no persistence.
C4_RequiredWith ==
    (RootWithoutKey \/ KeyWithoutRoot) =>
        /\ \A i \in CallIndices : calls[i].op = "assertCryptoRand"
        /\ pc \in {"assertCryptoRand", "validate", "done"}
        /\ (pc = "done" /\ PreflightOK) =>
              err = (IF RootWithoutKey THEN RequiredWithFlag("root", "key")
                                       ELSE RequiredWithFlag("key", "root"))

\* --key without --root, together with an invalid --ra and --pki --no-db
C4_Witness ==
    /\ pc = "done" /\ err = RequiredWithFlag("key", "root")
    /\ KeyWithoutRoot /\ ra = <<"v","a","u","l","t">> /\ ctx.pki /\ ctx.noDB

----------------------------------------------------------------------------
(* C5 *)

InvalidRA == ra # <<>> /\ ra # StepCAS /\ ra # CloudCAS

\* C5: with a --ra that is none of "", "stepcas", "cloudcas" (compared
\* without case) no backend is resolved, no prompt is shown and pki.New is
\* not called, whatever the other flags are, --root and --key both supplied
\* and readable included; the run that gets to the --ra rule returns the
\* invalid-flag-value error for ra.
C5_InvalidRARejected ==
    InvalidRA =>
        /\ \A i \in CallIndices : calls[i].op \notin PromptOps \cup PKIOps
        /\ deploymentType = "unset" /\ casOptions = ZeroOptions
        /\ (pc = "done" /\ AllCallsOK /\ ~RootWithoutKey /\ ~KeyWithoutRoot) =>
              err = InvalidFlagValue("ra", ctx.ra, "StepCAS or CloudCAS")

----------------------------------------------------------------------------
(* C6 *)

\* C6: with --pki and --no-db, or with --pki and --helm, no run gets to a
\* prompt, to pki.New, to a generation call, to WriteHelmTemplate or to Save,
\* and a run in which no call failed and that is not stopped by an earlier
\* rule returns the incompatible-flags error; with --pki and neither, no incompatible-flags error is returned.
C6_PKIOnlyIncompatible ==
    /\ (ctx.pki /\ (ctx.noDB \/ ctx.helm)) =>
          /\ \A i \in CallIndices : calls[i].op \notin PromptOps \cup PKIOps
          /\ (pc = "done" /\ AllCallsOK /\ ~RootWithoutKey /\ ~KeyWithoutRoot
                /\ ~InvalidRA) =>
                err = (IF ctx.noDB THEN IncompatibleFlagWithFlag("pki", "no-db")
                                   ELSE IncompatibleFlagWithFlag("pki", "helm"))
    /\ (ctx.pki /\ ~ctx.noDB /\ ~ctx.helm) => err.kind # "IncompatibleFlagWithFlag"

----------------------------------------------------------------------------
(* C7 *)

\* C7: the preflight is the first thing a run does and it is done once; no
\* other step is taken before it has succeeded; when it fails the run has
\* returned its error, whatever the flags, and has done nothing else (no
\* validation, no file read, no prompt, no call into the pki library).
C7_PreflightFirst ==
    /\ pc = "assertCryptoRand" => calls = <<>> /\ err = Nil
    /\ pc # "assertCryptoRand" =>
          /\ Len(calls) >= 1 /\ calls[1].op = "assertCryptoRand"
          /\ Count("assertCryptoRand") = 1
          /\ IF calls[1].ok
             THEN err # CryptoRandErr
             ELSE /\ pc = "done" /\ err = CryptoRandErr /\ Len(calls) = 1
                  /\ rootCrt = "nil" /\ rootKey = "nil"
                  /\ deploymentType = "unset" /\ casOptions = ZeroOptions

\* the preflight fails in a run whose flags would not pass the validation
C7_Witness ==
    /\ pc = "done" /\ err = CryptoRandErr
    /\ RootWithoutKey /\ ctx.pki /\ ctx.noDB

----------------------------------------------------------------------------
(* C8 *)

\* the deployment types legal for the mode, by their flag value
LegalNames(isRA) ==
    IF isRA THEN {<<Standalone, StandaloneDeployment>>, <<Linked, LinkedDeployment>>}
    ELSE {<<Standalone, StandaloneDeployment>>, <<Linked, LinkedDeployment>>,
          <<Hosted, HostedDeployment>>}

----------------------------------------------------------------------------
(* C9 *)

\* C9: at most one of WriteHelmTemplate and Save is invoked, at most once,
\* and it is the last call of the run; with --helm Save is never invoked,
\* without --helm WriteHelmTemplate is never invoked.
C9_HelmOrSave ==
    /\ Count("WriteHelmTemplate") + Count("Save") <= 1
    /\ \A i \in CallIndices : calls[i].op \in PersistenceOps =>
          i = Len(calls) /\ pc = "done"
    /\ ctx.helm => ~Invoked("Save")
    /\ ~ctx.helm => ~Invoked("WriteHelmTemplate")

C9_Witness == pc = "done" /\ err = Nil /\ ctx.helm /\ Succeeded("WriteHelmTemplate")

----------------------------------------------------------------------------
(* C10 *)

\* the run is past the generation of the key pairs
PassedKeyPairs ==
    /\ Succeeded("ui.PromptPasswordGenerate")
    /\ pc # "generateKeyPairs"
    /\ ~Failed("GenerateKeyPairs")

RootSteps == {"GenerateRootCertificate", "WriteRootCertificate"}
RootSupplied == ctx.root # "" /\ ctx.key # ""

\* C10: in a run past the key pairs and past the root step, a creator has
\* invoked exactly one root step (GenerateRootCertificate if no root was
\* supplied, else WriteRootCertificate with the supplied certificate, a nil
\* key and a nil password) and never GetCertificateAuthority, and
\* GenerateIntermediateCertificate only after the root step succeeded; a
\* non-creator has invoked GetCertificateAuthority and no root or
\* intermediate step.
C10_CreatorPaths ==
    /\ (PassedKeyPairs /\ pc # "root") =>
          IF casOptions.IsCreator
          THEN /\ OpsIn(RootSteps) =
                    (IF RootSupplied THEN <<"WriteRootCertificate">>
                                     ELSE <<"GenerateRootCertificate">>)
               /\ \A i \in CallIndices : calls[i].op = "WriteRootCertificate" =>
                     calls[i].args = <<"rootCrt", "nil", "nil">>
               /\ ~Invoked("GetCertificateAuthority")
               /\ Count("GenerateIntermediateCertificate") <= 1
          ELSE /\ Count("GetCertificateAuthority") = 1
               /\ OpsIn(RootSteps \cup {"GenerateIntermediateCertificate"}) = <<>>
    /\ \A i \in CallIndices : calls[i].op = "GenerateIntermediateCertificate" =>
          i > 1 /\ calls[i-1].op \in RootSteps /\ calls[i-1].ok

\* a creator with a supplied root, and the intermediate generated
C10_Witness ==
    /\ pc = "done" /\ casOptions.IsCreator /\ RootSupplied
    /\ Succeeded("WriteRootCertificate")
    /\ Succeeded("GenerateIntermediateCertificate")

----------------------------------------------------------------------------
(* C11 *)

\* C11: a run past the key pairs has invoked GenerateKeyPairs exactly once
\* if --pki is unset and the deployment type is standalone, and not at all
\* otherwise; the call comes after pki.New and the password prompt
\* succeeded; the password passed is the contents of the file named by
\* --provisioner-password-file whenever that flag is given (the file was
\* read), and the CA key password of the password prompt otherwise.
C11_ProvisionerKeyPairs ==
    /\ (PassedKeyPairs \/ Invoked("GenerateKeyPairs")) =>
          Count("GenerateKeyPairs") =
              (IF ~ctx.pki /\ deploymentType = StandaloneDeployment THEN 1 ELSE 0)
    /\ \A i \in CallIndices : calls[i].op = "GenerateKeyPairs" =>
          /\ i > 2
          /\ calls[i-1].op = "ui.PromptPasswordGenerate" /\ calls[i-1].ok
          /\ calls[i-2].op = "pki.New" /\ calls[i-2].ok
          /\ calls[i].args = (IF ctx.provisionerPasswordFile # ""
                              THEN <<provisionerPassword>> ELSE <<pass>>)

----------------------------------------------------------------------------
(* C12 *)

\* the answer given to the DNS names prompt
DNSAnswered == \E i \in CallIndices : calls[i].op = "ui.Prompt" /\ Len(calls[i].args) = 2
DNSAnswer ==
    calls[CHOOSE i \in CallIndices : calls[i].op = "ui.Prompt" /\ Len(calls[i].args) = 2].args[2]

NotSeparator(c) == c \notin {",", " "}
NotEmpty(seg) == seg # <<>>

\* the concatenation of the entries of a list
RECURSIVE Flatten(_)
Flatten(l) == IF l = <<>> THEN <<>> ELSE Head(l) \o Flatten(Tail(l))

----------------------------------------------------------------------------
(* C13 *)

\* C13: a run that returned nil and is not the local backend (--ra empty)
\* with the hosted deployment type has invoked pki.New and has ended with
\* the one successful call of WriteHelmTemplate or Save.
C13_OnlyEarlySuccess ==
    (pc = "done" /\ err = Nil /\ ~(ctx.ra = <<>> /\ deploymentType = HostedDeployment)) =>
        /\ Succeeded("pki.New")
        /\ Count("WriteHelmTemplate") + Count("Save") = 1
        /\ calls[Len(calls)].op \in PersistenceOps /\ calls[Len(calls)].ok

----------------------------------------------------------------------------
(* C14 *)

\* the deployment type an option of the usage text stands for
UsageDeploymentType(v) ==
    IF v = Standalone THEN StandaloneDeployment
    ELSE IF v = Hosted THEN HostedDeployment
    ELSE LinkedDeployment

\* C14: in non-RA mode a --deployment-type value that the usage text lists
\* (standalone, linkedca, hosted) is never refused with the
\* invalid-flag-value error, and once promptDeploymentType has returned the
\* deployment type is the one the option stands for.
C14_UsageOptionsAccepted ==
    (~IsRA /\ ToLower(ctx.deploymentType) \in UsageDeploymentTypes) =>
        /\ ~(err.kind = "InvalidFlagValue" /\ err.a = "deployment-type")
        /\ deploymentType # "unset" =>
              deploymentType = UsageDeploymentType(ToLower(ctx.deploymentType))

----------------------------------------------------------------------------
(* C15 *)

\* the error of the earliest rule the input violates, Nil if it violates none
EarliestViolation ==
    IF RootWithoutKey THEN RequiredWithFlag("root", "key")
    ELSE IF KeyWithoutRoot THEN RequiredWithFlag("key", "root")
    ELSE IF Failed("pemutil.ReadCertificate") THEN CallErr("pemutil.ReadCertificate")
    ELSE IF Failed("pemutil.Read") THEN CallErr("pemutil.Read")
    ELSE IF InvalidRA THEN InvalidFlagValue("ra", ctx.ra, "StepCAS or CloudCAS")
    ELSE IF ctx.pki /\ ctx.noDB THEN IncompatibleFlagWithFlag("pki", "no-db")
    ELSE IF ctx.pki /\ ctx.helm THEN IncompatibleFlagWithFlag("pki", "helm")
    ELSE Nil

\* the rules the input violates, by their number in the order
ViolatedRules ==
    {n \in 1..6 :
        \/ n = 1 /\ RootWithoutKey
        \/ n = 2 /\ KeyWithoutRoot
        \/ n = 3 /\ (Failed("pemutil.ReadCertificate") \/ Failed("pemutil.Read"))
        \/ n = 4 /\ InvalidRA
        \/ n = 5 /\ ctx.pki /\ ctx.noDB
        \/ n = 6 /\ ctx.pki /\ ctx.helm}

\* C15: the rules are tried in the order root without key, key without
\* root, root and key both set (the two reads), invalid --ra, --pki with
\* --no-db, --pki with --helm; a run whose input violates several rules
\* returns the error of the earliest violated rule and goes no further than
\* the validation.
C15_Precedence ==
    (PreflightOK /\ Cardinality(ViolatedRules) >= 2) =>
        /\ pc \in {"validate", "readCertificate", "readKey", "done"}
        /\ pc = "done" => err = EarliestViolation

----------------------------------------------------------------------------
(* C16 *)

\* the operator answered "create new" to the CloudCAS question
AnsweredCreate ==
    \E i \in CallIndices :
        calls[i].op = "ui.PromptYesNo" /\ calls[i].ok /\ calls[i].args = <<TRUE>>

\* C16: pki.New is called at most once, with the options of the backend
\* that the lower-cased --ra selects; the StepCAS options have IsCreator
\* false and IsCAGetter true and a StepCAS run makes no root or intermediate
\* call, --root and --key supplied or not; the local options have IsCreator
\* true and the organization is the PKI name; the CloudCAS options have
\* IsCreator true exactly if --issuer is not given and the operator
\* answered "create new"; with --issuer the question is never asked.
C16_BackendOptions ==
    /\ Count("pki.New") <= 1
    /\ \A i \in CallIndices : calls[i].op = "pki.New" =>
          LET o == calls[i].args[1]
          IN  /\ o = casOptions
              /\ o.Type = (IF ra = StepCAS THEN StepCAS
                           ELSE IF ra = CloudCAS THEN CloudCAS ELSE SoftCAS)
              /\ o.Type = StepCAS => ~o.IsCreator /\ o.IsCAGetter
              /\ o.Type = SoftCAS => o.IsCreator /\ org = name /\ name \in NameAnswers
              /\ o.Type = CloudCAS => (o.IsCreator <=> (ctx.issuer = "" /\ AnsweredCreate))
    /\ ra = StepCAS =>
          OpsIn(RootSteps \cup {"GenerateIntermediateCertificate"}) = <<>>
    /\ \A i \in CallIndices : calls[i].op = "GenerateRootCertificate" /\ ra # CloudCAS =>
          calls[i].args[1] = calls[i].args[2]
    /\ ctx.issuer # "" => ~Invoked("ui.PromptYesNo")

\* a finished StepCAS run with --root and --key supplied
C16_Witness ==
    /\ pc = "done" /\ err = Nil /\ ra = StepCAS /\ RootSupplied
    /\ Succeeded("GetCertificateAuthority")

----------------------------------------------------------------------------
(* C17 *)

\* the options passed to pki.New, as a set
PassedOptions ==
    LET i == CHOOSE k \in CallIndices : calls[k].op = "pki.New"
    IN  {calls[i].args[2][k] : k \in 1..Len(calls[i].args[2])}

\* the run is past the root and intermediate step, or past
\* GetCertificateAuthority, and past the SSH step
PastSSHStep ==
    /\ Succeeded("GenerateIntermediateCertificate") \/ Succeeded("GetCertificateAuthority")
    /\ pc # "ssh"

\* C17: a run past the certificate step has invoked GenerateSSHSigningKeys
\* once, with the CA key password, if --ssh is set and not at all otherwise,
\* whatever the backend, the deployment type and --pki.  Without --pki the
\* options of pki.New hold WithProvisioner exactly for standalone, WithAdmin
\* exactly for linked, WithSSH exactly for not linked with --ssh, and
\* WithAdmin never with WithProvisioner or WithSSH.  With --pki the only
\* option is WithPKIOnly.
C17_SSHAndOptions ==
    /\ PastSSHStep =>
          /\ Count("GenerateSSHSigningKeys") = (IF ctx.ssh THEN 1 ELSE 0)
          /\ \A i \in CallIndices : calls[i].op = "GenerateSSHSigningKeys" =>
                calls[i].args = <<pass>> /\ pass \in PassAnswers
    /\ ~PastSSHStep => ~Invoked("GenerateSSHSigningKeys")
    /\ Invoked("pki.New") =>
          IF ctx.pki
          THEN PassedOptions = {"WithPKIOnly"}
          ELSE /\ "WithProvisioner" \in PassedOptions <=> deploymentType = StandaloneDeployment
               /\ "WithAdmin" \in PassedOptions <=> deploymentType = LinkedDeployment
               /\ "WithSSH" \in PassedOptions <=>
                     (deploymentType # LinkedDeployment /\ ctx.ssh)
               /\ "WithAdmin" \in PassedOptions =>
                     "WithProvisioner" \notin PassedOptions /\ "WithSSH" \notin PassedOptions
               /\ "WithPKIOnly" \notin PassedOptions

\* SSH keys generated in a pki-only run of an RA with the linked type
C17_Witness ==
    /\ pc = "done" /\ err = Nil /\ ctx.pki /\ ctx.ssh /\ ra = StepCAS
    /\ deploymentType = LinkedDeployment
    /\ Succeeded("GenerateSSHSigningKeys")

----------------------------------------------------------------------------
(* C18 *)

\* C18: pki.New and the steps after it are reached with the deployment
\* type standalone or linked only; with hosted no run gets to the options
\* of the PKI or to any call into the pki library.
C18_NoHostedPKI ==
    /\ (pc \in {"pkiNew", "promptPassword", "generateKeyPairs", "root", "intermediate",
                 "ssh", "final"}
         \/ \E i \in CallIndices : calls[i].op \in PKIOps \cup {"ui.PromptPasswordGenerate"}) =>
          deploymentType \in {StandaloneDeployment, LinkedDeployment}
    /\ deploymentType = HostedDeployment =>
          /\ pc \in {"backend", "done"}
          /\ ~IsRA
          /\ \A i \in CallIndices : calls[i].op \notin PKIOps

\* hosted asked for with an RA backend: refused, pki.New not reached
C18_Witness ==
    /\ pc = "done" /\ ra = CloudCAS /\ ToLower(ctx.deploymentType) = Hosted
    /\ err.kind = "InvalidFlagValue" /\ ~Invoked("pki.New")

----------------------------------------------------------------------------
(* C19 *)

\* the run has reached the final step with --pki unset
C19_Run == ~ctx.pki /\ (Invoked("WriteHelmTemplate") \/ Invoked("Save"))

\* C19 as written: in a run that reaches WriteHelmTemplate or Save with
\* --pki unset, WithProvisioner was passed to pki.New exactly if
\* GenerateKeyPairs succeeded, and GenerateSSHSigningKeys was invoked only
\* if WithSSH was passed to pki.New.
C19_Original ==
    C19_Run =>
        /\ "WithProvisioner" \in PassedOptions <=> Succeeded("GenerateKeyPairs")
        /\ Invoked("GenerateSSHSigningKeys") => "WithSSH" \in PassedOptions

\* C19 amended: in such a run WithProvisioner was passed to pki.New exactly
\* if GenerateKeyPairs succeeded, and if the deployment type is not linked
\* GenerateSSHSigningKeys was invoked only if WithSSH was passed; in a
\* linked run GenerateSSHSigningKeys is invoked exactly if --ssh is set
\* and WithSSH is never passed.
C19_Consistency ==
    C19_Run =>
        /\ "WithProvisioner" \in PassedOptions <=> Succeeded("GenerateKeyPairs")
        /\ IF deploymentType # LinkedDeployment
           THEN Invoked("GenerateSSHSigningKeys") => "WithSSH" \in PassedOptions
           ELSE /\ Invoked("GenerateSSHSigningKeys") <=> ctx.ssh
                /\ "WithSSH" \notin PassedOptions

\* a standalone run with --ssh that reached Save
C19_Witness ==
    /\ C19_Run /\ Succeeded("Save") /\ deploymentType = StandaloneDeployment
    /\ Succeeded("GenerateKeyPairs") /\ Succeeded("GenerateSSHSigningKeys")
    /\ "WithSSH" \in PassedOptions

----------------------------------------------------------------------------
(* C20 *)

\* C20: when GetCertificateAuthority is invoked the CertificateAuthority of
\* the options passed to pki.New is not empty; for CloudCAS IsCreator is
\* true exactly if CertificateAuthority is empty; the authority of a
\* CloudCAS run that uses an existing one matches the resource-name pattern,
\* whether it was answered to the prompt or given with --issuer.
C20_RemoteAuthority ==
    \A i \in CallIndices : calls[i].op = "pki.New" =>
        LET o == calls[i].args[1]
        IN  /\ Invoked("GetCertificateAuthority") => o.CertificateAuthority # ""
            /\ o.Type = CloudCAS => (o.IsCreator <=> o.CertificateAuthority = "")
            /\ (o.Type = CloudCAS /\ ~o.IsCreator) =>
                  MatchesAuthorityPattern(o.CertificateAuthority)

====
